---------------------------- MODULE Spec2Model ----------------------------
(***************************************************************************)
(* Model of the recursive layer processor of multilayered-dataprocessing.  *)
(*                                                                         *)
(* Two designs share the same walk (ConcreteProcessor._process):           *)
(*   "config"  : src/src/dataprocessor/configuration_based_strategy.py     *)
(*   "perType" : src/src/dataprocessor/one_strategy_per_layer_type.py      *)
(*                                                                         *)
(* Reading conventions of the model:                                       *)
(*  - a layer is a node of the decoded document; layer_data.field_name is  *)
(*    its field name, layer_data.data / layer_data.items() its fields;     *)
(*  - a member the handler names slightly differently from its definition  *)
(*    (strategy_obj / strategy, notify / _notify) is read as that member;  *)
(*  - a strategy class stands for the instance its __init__ builds, so its *)
(*    flags are the ones that __init__ sets;                               *)
(*  - InvalidInputException is the only failure the walk handles.  No code *)
(*    under src raises it; the try block (constructor call, process_data   *)
(*    call) is where the handler expects it, so the environment chooses,   *)
(*    per layer, whether the constructor or the layer's own part of        *)
(*    _process raises it.  An exception raised below a child is always     *)
(*    caught by the handler of that child's loop, so the only exception    *)
(*    that leaves process_data of a layer is one of its own head.          *)
(*  - the walk never calls strategy.validate / process / store and has no  *)
(*    undo: the side-effect variables below are never written by it.       *)
(***************************************************************************)
EXTENDS Integers, Sequences, FiniteSets, TLC

\* ---------------------------------------------------------------- bounds
MaxLayers == 3
MaxFaults == 2
MaxListLayers == 1

\* ------------------------------------------------------------- documents
None == 0

FieldNames == {"address", "transaction", "location", "other"}

\* The shapes a non-root layer is drawn from: field name and scalar keys.
Shapes ==
    { [field_name |-> "address", keys |-> k] :
          k \in {{}, {"street"}, {"avenue"}, {"street", "avenue"}} }
    \cup { [field_name |-> f, keys |-> {}] :
          f \in {"transaction", "location", "other"} }

RootShape == [field_name |-> "document", keys |-> {}]

ParentMaps(n) ==
    { p \in [1..n -> 0..n] :
          /\ p[1] = 0
          /\ \A i \in 2..n : p[i] >= 1 /\ p[i] < i }

\* JSON object keys are unique: two layers of one parent share a field
\* name only when both are elements of the same sequence-valued field.
WellFormed(d) ==
    /\ d.shape[1] = RootShape
    /\ d.in_list[1] = FALSE
    /\ Cardinality({i \in 1..d.n : d.in_list[i]}) <= MaxListLayers
    /\ \A i, j \in 2..d.n :
          (i # j /\ d.parent[i] = d.parent[j]
               /\ d.shape[i].field_name = d.shape[j].field_name)
              => (d.in_list[i] /\ d.in_list[j])

DocumentsOfSize(n) ==
    { d \in [n : {n}, parent : ParentMaps(n),
             shape : [1..n -> Shapes \cup {RootShape}],
             in_list : [1..n -> BOOLEAN]] : WellFormed(d) }

Documents == UNION { DocumentsOfSize(n) : n \in 1..MaxLayers }

FaultKinds == {"none", "init", "process"}

VARIABLES
    design,            \* which of the two source files runs
    doc,               \* the decoded document (json.loads result)
    faults,            \* per layer: where InvalidInputException was raised
    status,            \* position of Driver.main / fate of the process
    stack,             \* call stack of ConcreteProcessor._process frames
    strategy_obj,      \* per layer: strategy of its processor
    visited,           \* layers whose process_data was called, in order
    outcome,           \* per layer: how its visit ended
    depth,             \* per layer: recursion depth of its visit (0: none)
    storage_receipts,  \* StorageHandler.store calls
    notifications,     \* Notifier.notify calls
    undo_ledger,       \* registered undo actions
    undo_invoked,      \* invoked undo actions
    notify_calls,      \* processor_obj.notify() calls of the handler
    trace_id,          \* per layer: _trace_id of its processor ("-": none)
    strategy_pc,       \* the next ConcreteStrategy method its caller invokes
    calls              \* component calls made by ConcreteStrategy, in order

vars == <<design, doc, faults, status, stack, strategy_obj, visited, outcome,
          depth, storage_receipts, notifications, undo_ledger, undo_invoked,
          notify_calls, trace_id, strategy_pc, calls>>

effects == <<storage_receipts, notifications, undo_ledger, undo_invoked,
             strategy_pc, calls>>

LayerIds == 1..doc.n

Children(l) == {c \in LayerIds : doc.parent[c] = l}

\* layer_data.data: the keys of the layer's mapping
DataKeys(l) ==
    doc.shape[l].keys \cup {doc.shape[c].field_name : c \in Children(l)}

\* ------------------------------------------------------------ strategies
\* A strategy value: the class the resolver returned, the component kinds
\* (configuration-based design only) and the two policy flags.
NoStrategy ==
    [cls |-> "None", transformer |-> "-", storage_handler |-> "-",
     notifier_obj |-> "-", stop_on_failure |-> FALSE,
     is_independent_of_children |-> FALSE]

TransformerFactory(field_name) ==
    IF field_name \in {"address", "transaction"}
    THEN "RuleBasedTransformer"
    ELSE "ReflectiveTransformer"

NotifierFactory(field_name) ==
    IF field_name \in {"address"} THEN "EmailNotifier"
    ELSE IF field_name \in {"location", "transaction"}
         THEN "MessageQueueNotifier"
         ELSE "NullNotifier"

\* Mutant of StorageFactory: 'location' falls through to the default.
StorageFactoryLocationDefault(field_name) ==
    IF field_name \in {"address"} THEN "StoreToS3"
    ELSE IF field_name \in {"transaction"}
         THEN "StoreToDB"
         ELSE "StoreToFile"

StorageFactory(field_name) ==
    IF field_name \in {"address"} THEN "StoreToS3"
    ELSE IF field_name \in {"location", "transaction"}
         THEN "StoreToDB"
         ELSE "StoreToFile"

\* Mutant of ConcreteStrategy: the default of stop_on_failure is False.
ConcreteStrategyLenient(field_name) ==
    [cls |-> "ConcreteStrategy",
     transformer |-> TransformerFactory(field_name),
     storage_handler |-> StorageFactory(field_name),
     notifier_obj |-> NotifierFactory(field_name),
     stop_on_failure |-> FALSE,
     is_independent_of_children |-> FALSE]

\* ConcreteStrategy(layer_data): ConcreteProcessor passes no flags, so the
\* defaults stop_on_failure=True, is_independent_of_children=False apply.
ConcreteStrategy(field_name) ==
    [cls |-> "ConcreteStrategy",
     transformer |-> TransformerFactory(field_name),
     storage_handler |-> StorageFactory(field_name),
     notifier_obj |-> NotifierFactory(field_name),
     stop_on_failure |-> TRUE,
     is_independent_of_children |-> FALSE]

\* BaseAddressStrategy.__init__ defaults and StreetAddressStrategy.__init__
BaseAddressStrategy(cls, stop_on_failure, is_independent_of_children) ==
    [cls |-> cls, transformer |-> "-", storage_handler |-> "-",
     notifier_obj |-> "-", stop_on_failure |-> stop_on_failure,
     is_independent_of_children |-> is_independent_of_children]

StreetAddressStrategy == BaseAddressStrategy("StreetAddressStrategy", FALSE, TRUE)
AvenueAddressStrategy == BaseAddressStrategy("AvenueAddressStrategy", TRUE, FALSE)
DefaultAddressStrategy == BaseAddressStrategy("DefaultAddressStrategy", TRUE, FALSE)

\* Mutant of get_strategy: 'avenue' is tested before 'street'.
get_strategy_avenue_first(field_name, data) ==
    IF field_name = "address"
    THEN IF "avenue" \in data THEN AvenueAddressStrategy
         ELSE IF "street" \in data THEN StreetAddressStrategy
              ELSE DefaultAddressStrategy
    ELSE NoStrategy

\* Mutant of get_strategy: the street refinement depends on how many visits
\* have been started, as with a resolver that keeps state between calls.
get_strategy_stateful(field_name, data) ==
    IF field_name = "address"
    THEN IF "street" \in data /\ Len(visited) < 2 THEN StreetAddressStrategy
         ELSE IF "avenue" \in data THEN AvenueAddressStrategy
              ELSE DefaultAddressStrategy
    ELSE NoStrategy

\* StrategyResolver.get_strategy: no branch for field_name # 'address', the
\* function falls off its end and returns None.
get_strategy(field_name, data) ==
    IF field_name = "address"
    THEN IF "street" \in data THEN StreetAddressStrategy
         ELSE IF "avenue" \in data THEN AvenueAddressStrategy
              ELSE DefaultAddressStrategy
    ELSE NoStrategy

\* The strategy ConcreteProcessor.__init__ attaches to the processor of l.
ResolveStrategy(l) ==
    IF design = "config"
    THEN ConcreteStrategy(doc.shape[l].field_name)
    ELSE get_strategy(doc.shape[l].field_name, DataKeys(l))

\* ------------------------------------------------------------------ walk
\* The strategy slot of a layer whose processor was never built.
NoProcessor ==
    [cls |-> "-", transformer |-> "-", storage_handler |-> "-",
     notifier_obj |-> "-", stop_on_failure |-> FALSE,
     is_independent_of_children |-> FALSE]

\* Whether the environment may raise InvalidInputException once more.
RaiseChoices ==
    IF Cardinality({l \in LayerIds : faults[l] # "none"}) < MaxFaults
    THEN BOOLEAN
    ELSE {FALSE}

SeqOfSet(S) ==
    LET RECURSIVE build(_, _)
        build(T, acc) ==
            IF T = {} THEN acc
            ELSE LET m == CHOOSE x \in T : \A y \in T : x <= y
                 IN  build(T \ {m}, Append(acc, m))
    IN build(S, <<>>)

\* Mutant of LayerNodes: the elements of sequence-valued fields are queued
\* as well.
LayerNodesWithLists(l) == SeqOfSet(Children(l))

\* Mutant of LayerNodes: the dict-valued fields are queued in reverse order.
LayerNodesReversed(l) ==
    LET q == SeqOfSet({c \in Children(l) : ~doc.in_list[c]})
    IN  [i \in 1..Len(q) |-> q[Len(q) + 1 - i]]

\* for field, value in self._data.items(): if type(value) is dict: append.
\* A sequence-valued field is a list, not a dict: its elements are skipped.
LayerNodes(l) == SeqOfSet({c \in Children(l) : ~doc.in_list[c]})

Frame(l) ==
    [layer |-> l, layer_nodes |-> <<>>, idx |-> 1,
     processor_obj |-> None, pc |-> "head"]

\* uuid4(): one of the identifiers a run may draw.
TraceIds == {"uuid-1", "uuid-2"}

Top == stack[Len(stack)]
Below == SubSeq(stack, 1, Len(stack) - 1)
ReplaceTop(f) == Append(Below, f)

Init ==
    /\ design \in {"config", "perType"}
    /\ doc \in Documents
    /\ faults = [l \in 1..doc.n |-> "none"]
    /\ status = "start"
    /\ stack = <<>>
    /\ strategy_obj = [l \in 1..doc.n |-> NoProcessor]
    /\ visited = <<>>
    /\ outcome = [l \in 1..doc.n |-> "Pending"]
    /\ depth = [l \in 1..doc.n |-> 0]
    /\ storage_receipts = <<>>
    /\ notifications = <<>>
    /\ undo_ledger = <<>>
    /\ undo_invoked = <<>>
    /\ notify_calls = <<>>
    /\ trace_id = [l \in 1..doc.n |-> "-"]
    /\ strategy_pc = "idle"
    /\ calls = <<>>

\* Mutant of ChildTraceId: the child processor is given an identifier of
\* its own instead of the caller's.
ChildTraceIdFresh(f) ==
    CHOOSE t \in TraceIds : t # trace_id[f.layer]

\* ConcreteProcessor(self._trace_id, layer_node): the identifier the visit
\* of frame f hands to the processor of a child.
ChildTraceId(f) == trace_id[f.layer]

\* Driver.main: build the root processor and call process_data on it.
\* Nothing catches an exception here.
Main ==
    /\ status = "start"
    /\ UNCHANGED <<design, doc, effects, notify_calls>>
    /\ \E raise \in RaiseChoices :
       IF raise
       THEN /\ faults' = [faults EXCEPT ![1] = "init"]
            /\ status' = "uncaught InvalidInputException"
            /\ outcome' = [outcome EXCEPT ![1] = "Failed"]
            /\ UNCHANGED <<stack, strategy_obj, visited, depth, trace_id>>
       ELSE /\ status' = "running"
            /\ UNCHANGED faults
            /\ \E t \in TraceIds : trace_id' = [trace_id EXCEPT ![1] = t]
            /\ strategy_obj' = [strategy_obj EXCEPT ![1] = ResolveStrategy(1)]
            /\ stack' = <<Frame(1)>>
            /\ visited' = <<1>>
            /\ depth' = [depth EXCEPT ![1] = 1]
            /\ outcome' = [outcome EXCEPT ![1] = "Visiting"]

\* Mutant of Unwind: the failing visit swallows its own exception and goes
\* on to its child loop.
UnwindSwallowed(s) ==
    Append(SubSeq(s, 1, Len(s) - 1),
           [s[Len(s)] EXCEPT !.layer_nodes = LayerNodes(s[Len(s)].layer),
                             !.idx = 1, !.pc = "loop"])

\* The stack after InvalidInputException leaves the top frame: the frame
\* is gone and the caller is in its except clause.
Unwind(s) ==
    LET rest == SubSeq(s, 1, Len(s) - 1)
    IN  IF rest = <<>> THEN rest
        ELSE Append(SubSeq(rest, 1, Len(rest) - 1),
                    [rest[Len(rest)] EXCEPT !.pc = "except"])

\* _process up to the child loop: the layer's own fields, then the capture
\* of its dict-valued fields.
ProcessFields ==
    /\ status = "running"
    /\ Top.pc = "head"
    /\ UNCHANGED <<design, doc, effects, notify_calls, strategy_obj,
                   visited, depth, trace_id>>
    /\ \E raise \in RaiseChoices :
       IF raise
       THEN /\ faults' = [faults EXCEPT ![Top.layer] = "process"]
            /\ outcome' = [outcome EXCEPT ![Top.layer] = "Failed"]
            /\ stack' = Unwind(stack)
            /\ status' = IF Len(stack) = 1
                         THEN "uncaught InvalidInputException"
                         ELSE status
       ELSE /\ stack' = ReplaceTop([Top EXCEPT
                            !.layer_nodes = LayerNodes(Top.layer),
                            !.idx = 1, !.pc = "loop"])
            /\ UNCHANGED <<outcome, status, faults>>

\* One iteration of the loop, up to the call of process_data: the child's
\* processor is built, its independence flag is read (the branch is `pass`)
\* and process_data is called on the caller's stack.
VisitChild ==
    /\ status = "running"
    /\ Top.pc = "loop"
    /\ Top.idx <= Len(Top.layer_nodes)
    /\ UNCHANGED <<design, doc, effects, notify_calls>>
    /\ \E raise \in RaiseChoices :
       LET c == Top.layer_nodes[Top.idx]
           s == ResolveStrategy(c)
       IN  IF raise
           THEN \* the constructor raised: processor_obj keeps its old value
                /\ faults' = [faults EXCEPT ![c] = "init"]
                /\ outcome' = [outcome EXCEPT ![c] = "Failed"]
                /\ stack' = ReplaceTop([Top EXCEPT !.pc = "except"])
                /\ UNCHANGED <<status, strategy_obj, visited, depth, trace_id>>
           ELSE /\ UNCHANGED faults
                /\ strategy_obj' = [strategy_obj EXCEPT ![c] = s]
                /\ trace_id' = [trace_id EXCEPT ![c] = ChildTraceId(Top)]
                /\ IF s.cls = "None"
                   THEN \* None.is_independent_of_children
                        /\ status' = "uncaught AttributeError"
                        /\ stack' = ReplaceTop([Top EXCEPT !.processor_obj = c])
                        /\ UNCHANGED <<visited, depth, outcome>>
                   ELSE /\ stack' = Append(
                               ReplaceTop([Top EXCEPT !.processor_obj = c,
                                                      !.pc = "call"]),
                               Frame(c))
                        /\ visited' = Append(visited, c)
                        /\ depth' = [depth EXCEPT ![c] = Len(stack) + 1]
                        /\ outcome' = [outcome EXCEPT ![c] = "Visiting"]
                        /\ UNCHANGED status

\* The loop is exhausted: _process returns to its caller.
Return ==
    /\ status = "running"
    /\ Top.pc = "loop"
    /\ Top.idx > Len(Top.layer_nodes)
    /\ UNCHANGED <<design, doc, faults, effects, notify_calls, strategy_obj,
                   visited, depth, trace_id>>
    /\ outcome' = [outcome EXCEPT ![Top.layer] = "Completed"]
    /\ IF Len(stack) = 1
       THEN /\ stack' = <<>>
            /\ status' = "returned"
       ELSE /\ stack' = Append(SubSeq(Below, 1, Len(Below) - 1),
                               [Below[Len(Below)] EXCEPT
                                    !.pc = "loop", !.idx = @ + 1])
            /\ UNCHANGED status

\* Mutant of HandleFailure: the stop branch hands the failure to the caller
\* instead of calling exit(-1).
HandleFailureReturning ==
    /\ status = "running"
    /\ Top.pc = "except"
    /\ UNCHANGED <<design, doc, faults, effects, strategy_obj, visited, depth,
                   trace_id>>
    /\ IF Top.processor_obj = None
       THEN /\ status' = "uncaught AttributeError"
            /\ UNCHANGED <<stack, notify_calls, outcome>>
       ELSE IF strategy_obj[Top.processor_obj].stop_on_failure
            THEN /\ notify_calls' = Append(notify_calls, Top.processor_obj)
                 /\ outcome' = [outcome EXCEPT ![Top.layer] = "Failed"]
                 /\ stack' = Unwind(stack)
                 /\ status' = IF Len(stack) = 1 THEN "returned" ELSE status
            ELSE /\ stack' = ReplaceTop([Top EXCEPT !.pc = "loop",
                                                    !.idx = @ + 1])
                 /\ UNCHANGED <<status, notify_calls, outcome>>

\* Mutant of HandleFailure: the flag is not consulted and the loop goes on
\* with the next child.
HandleFailureIgnoringFlag ==
    /\ status = "running"
    /\ Top.pc = "except"
    /\ UNCHANGED <<design, doc, faults, effects, strategy_obj, visited,
                   depth, outcome, trace_id, status, notify_calls>>
    /\ stack' = ReplaceTop([Top EXCEPT !.pc = "loop", !.idx = @ + 1])

\* except InvalidInputException: the flag is read from processor_obj, which
\* is whatever the last successful constructor call left there.
HandleFailure ==
    /\ status = "running"
    /\ Top.pc = "except"
    /\ UNCHANGED <<design, doc, faults, effects, strategy_obj, visited,
                   depth, outcome, trace_id>>
    /\ IF Top.processor_obj = None
       THEN \* None.strategy_obj
            /\ status' = "uncaught AttributeError"
            /\ UNCHANGED <<stack, notify_calls>>
       ELSE IF strategy_obj[Top.processor_obj].stop_on_failure
            THEN \* processor_obj.notify(); exit(-1)
                 /\ notify_calls' = Append(notify_calls, Top.processor_obj)
                 /\ status' = "exited"
                 /\ UNCHANGED stack
            ELSE /\ stack' = ReplaceTop([Top EXCEPT !.pc = "loop",
                                                    !.idx = @ + 1])
                 /\ UNCHANGED <<status, notify_calls>>

\* ------------------------------------------- one ConcreteStrategy object
\* The walk above never calls a strategy.  The methods of ConcreteStrategy
\* are modelled on their own: an object built for the child layer of a
\* two-layer document is driven by a caller through validate, process and
\* store, and every component call may raise.
walk == <<design, doc, faults, status, stack, strategy_obj, visited, outcome,
          depth, undo_ledger, undo_invoked, notify_calls, trace_id>>

Call(op, ok) == [op |-> op, ok |-> ok]

\* The caller of the strategy: validate, then process, then store, each
\* only after the one before returned; an exception ends the sequence.
AfterCall(method, returned) ==
    IF ~returned THEN "raised"
    ELSE CASE method = "validate" -> "process"
           [] method = "process" -> "store"
           [] method = "store" -> "done"

\* ConcreteStrategy(data, stop_on_failure, is_independent_of_children)
\* built for layer 2 of a two-layer document.
StrategyInit ==
    /\ design = "config"
    /\ doc \in {d \in DocumentsOfSize(2) : ~d.in_list[2]}
    /\ faults = [l \in 1..doc.n |-> "none"]
    /\ status = "strategy"
    /\ stack = <<>>
    /\ \E stop, indep \in BOOLEAN :
          strategy_obj =
              [l \in 1..doc.n |->
                  IF l = 2
                  THEN [ConcreteStrategy(doc.shape[2].field_name) EXCEPT
                            !.stop_on_failure = stop,
                            !.is_independent_of_children = indep]
                  ELSE NoProcessor]
    /\ visited = <<>>
    /\ outcome = [l \in 1..doc.n |-> "Pending"]
    /\ depth = [l \in 1..doc.n |-> 0]
    /\ storage_receipts = <<>>
    /\ notifications = <<>>
    /\ undo_ledger = <<>>
    /\ undo_invoked = <<>>
    /\ notify_calls = <<>>
    /\ trace_id = [l \in 1..doc.n |-> "-"]
    /\ strategy_pc = "validate"
    /\ calls = <<>>

\* ConcreteStrategy.validate: self.transformer.validate()
StrategyValidate ==
    /\ strategy_pc = "validate"
    /\ UNCHANGED <<walk, storage_receipts, notifications>>
    /\ \E ok \in BOOLEAN :
          /\ calls' = Append(calls, Call("transformer.validate", ok))
          /\ strategy_pc' = AfterCall("validate", ok)

\* Mutant of StrategyProcess: the notifier is not part of process().
StrategyProcessSilent ==
    /\ strategy_pc = "process"
    /\ UNCHANGED <<walk, storage_receipts, notifications>>
    /\ \E ok \in BOOLEAN :
          /\ calls' = Append(calls, Call("transformer.transform", ok))
          /\ strategy_pc' = AfterCall("process", ok)

\* ConcreteStrategy.process: self.transformer.transform() and then
\* self.notifier_obj.notify(), neither of them guarded.
StrategyProcess ==
    /\ strategy_pc = "process"
    /\ UNCHANGED <<walk, storage_receipts>>
    /\ \E transformed, notified \in BOOLEAN :
          IF ~transformed
          THEN /\ calls' = Append(calls, Call("transformer.transform", FALSE))
               /\ strategy_pc' = AfterCall("process", FALSE)
               /\ UNCHANGED notifications
          ELSE /\ calls' = Append(Append(calls,
                                Call("transformer.transform", TRUE)),
                                Call("notifier_obj.notify", notified))
               /\ notifications' = IF notified
                                    THEN Append(notifications, 2)
                                    ELSE notifications
               /\ strategy_pc' = AfterCall("process", notified)

\* ConcreteStrategy.store: self.storage_handler.store()
StrategyStore ==
    /\ strategy_pc = "store"
    /\ UNCHANGED <<walk, notifications>>
    /\ \E ok \in BOOLEAN :
          /\ calls' = Append(calls, Call("storage_handler.store", ok))
          /\ storage_receipts' = IF ok THEN Append(storage_receipts, 2)
                                 ELSE storage_receipts
          /\ strategy_pc' = AfterCall("store", ok)

StrategyNext ==
    \/ StrategyValidate
    \/ StrategyProcess
    \/ StrategyStore

StrategySpec == StrategyInit /\ [][StrategyNext]_vars

Next ==
    \/ Main
    \/ ProcessFields
    \/ VisitChild
    \/ Return
    \/ HandleFailure

Spec == Init /\ [][Next]_vars

TypeOK ==
    /\ status \in {"start", "running", "returned", "exited",
                   "uncaught InvalidInputException", "uncaught AttributeError"}
    /\ \A l \in LayerIds :
          /\ outcome[l] \in {"Pending", "Visiting", "Completed", "Failed"}
          /\ faults[l] \in FaultKinds

\* ---------------------------------------------------------------- claims
Terminated == status \notin {"start", "running"}

NoFailure == \A l \in LayerIds : faults[l] = "none"

Reverse(s) == [i \in 1..Len(s) |-> s[Len(s) + 1 - i]]

Occurrences(s, x) == Cardinality({i \in 1..Len(s) : s[i] = x})

\* The layers whose own processing went through before the current state:
\* the operations a rollback would have to compensate, in order.
Applied == SelectSeq(visited, LAMBDA l : outcome[l] # "Failed")

\* The handler of the running visit is about to take its stop branch.
HandlerStops ==
    /\ status = "running"
    /\ Top.pc = "except"
    /\ Top.processor_obj # None
    /\ strategy_obj[Top.processor_obj].stop_on_failure

\* C1 (as claimed): a run without any failure ends Completed, no undo
\* action is ever invoked, and undo entries have been registered during it.
C1_Claim ==
    (Terminated /\ NoFailure) =>
        /\ status = "returned"
        /\ outcome[1] = "Completed"
        /\ undo_invoked = <<>>
        /\ undo_ledger # <<>>

C3_Claim ==
    Terminated =>
        \A c \in 2..doc.n :
            (/\ faults[c] # "none"
             /\ ResolveStrategy(c).cls # "None"
             /\ ~ResolveStrategy(c).stop_on_failure)
            => \A s \in Children(doc.parent[c]) :
                   (s > c /\ ~doc.in_list[s])
                       => outcome[s] \in {"Completed", "Failed"}

\* C4 (as claimed): a child whose strategy is independent of its children
\* is dispatched as a concurrent unit, so its visit never runs on the call
\* stack of its parent's loop; and the root call returns only when every
\* visit that was started has finished.
C4_Claim ==
    /\ \A i \in 1..(Len(stack) - 1) :
          stack[i].pc = "call" =>
              ~strategy_obj[stack[i + 1].layer].is_independent_of_children
    /\ status = "returned" =>
          \A l \in LayerIds :
              depth[l] > 0 => outcome[l] \in {"Completed", "Failed"}

C7_Claim ==
    \A l \in 2..doc.n : strategy_obj[l].cls # "None"

HasNoSequence == \A l \in LayerIds : ~doc.in_list[l]

\* C9 (as claimed, on the documents that hold no sequence-valued field): in
\* a run without failure every layer of the document is visited exactly
\* once.
C9_Claim ==
    (Terminated /\ NoFailure /\ HasNoSequence) =>
        \A l \in LayerIds : Occurrences(visited, l) = 1

C11_SameTraceId ==
    /\ \A l \in LayerIds :
          strategy_obj[l] # NoProcessor =>
              (trace_id[l] \in TraceIds /\ trace_id[l] = trace_id[1])
    /\ \A l \in LayerIds :
          strategy_obj[l] = NoProcessor => trace_id[l] = "-"

\* A grandchild of the root is being visited with the root's identifier.
C11_Witness ==
    \E l \in LayerIds :
        /\ depth[l] = 3
        /\ trace_id[l] = trace_id[1]
        /\ trace_id[1] \in TraceIds

\* The child the running loop iteration is about.
CurrentChild == Top.layer_nodes[Top.idx]

\* C12 (as claimed): when a child fails, the handler takes the stop or
\* continue decision from the strategy of that failing child's processor.
C12_Claim ==
    (status = "running" /\ Top.pc = "except") =>
        Top.processor_obj = CurrentChild

RECURSIVE IsAncestor(_, _)
IsAncestor(a, d) ==
    /\ d > 1
    /\ (doc.parent[d] = a \/ IsAncestor(a, doc.parent[d]))

\* C14 (as claimed): a visit ends Completed only if every dict-valued
\* child of its layer ended Completed: a failure that the handler continued
\* past still makes the parent Failed.
C14_Claim ==
    \A l \in LayerIds :
        outcome[l] = "Completed" =>
            \A c \in Children(l) : ~doc.in_list[c] => outcome[c] = "Completed"

Touched(l) ==
    depth[l] > 0 \/ strategy_obj[l] # NoProcessor \/ outcome[l] # "Pending"

Position(l) == CHOOSE i \in 1..Len(visited) : visited[i] = l

StopFailed(c) ==
    /\ faults[c] # "none"
    /\ ResolveStrategy(c).cls # "None"
    /\ ResolveStrategy(c).stop_on_failure

C18_Refinement ==
    design = "perType" =>
        \A l \in LayerIds :
            (strategy_obj[l] # NoProcessor
                 /\ doc.shape[l].field_name = "address")
            => /\ "street" \in doc.shape[l].keys
                     => strategy_obj[l].cls = "StreetAddressStrategy"
               /\ ("avenue" \in doc.shape[l].keys
                     /\ "street" \notin doc.shape[l].keys)
                     => strategy_obj[l].cls = "AvenueAddressStrategy"
               /\ doc.shape[l].keys \cap {"street", "avenue"} = {}
                     => strategy_obj[l].cls = "DefaultAddressStrategy"

\* An address layer with both keys was resolved to the street strategy.
C18_Witness ==
    \E l \in LayerIds :
        /\ design = "perType"
        /\ doc.shape[l].keys = {"street", "avenue"}
        /\ strategy_obj[l].cls = "StreetAddressStrategy"

\* C19: in the configuration-based design the three component kinds are a
\* function of the field name only, with the four rows of the claim.
C19_Components ==
    design = "config" =>
        \A l \in LayerIds :
            strategy_obj[l] # NoProcessor =>
                LET f == doc.shape[l].field_name
                    k == <<strategy_obj[l].transformer,
                           strategy_obj[l].storage_handler,
                           strategy_obj[l].notifier_obj>>
                IN  /\ f = "address" =>
                          k = <<"RuleBasedTransformer", "StoreToS3", "EmailNotifier">>
                    /\ f = "transaction" =>
                          k = <<"RuleBasedTransformer", "StoreToDB",
                                "MessageQueueNotifier">>
                    /\ f = "location" =>
                          k = <<"ReflectiveTransformer", "StoreToDB",
                                "MessageQueueNotifier">>
                    /\ f \notin {"address", "transaction", "location"} =>
                          k = <<"ReflectiveTransformer", "StoreToFile",
                                "NullNotifier">>

\* A 'location' layer and a layer of another rule were both given their
\* strategy in one run.
C19_Witness ==
    \E l, m \in 2..doc.n :
        /\ design = "config"
        /\ doc.shape[l].field_name = "location"
        /\ strategy_obj[l].storage_handler = "StoreToDB"
        /\ doc.shape[m].field_name = "other"
        /\ strategy_obj[m].storage_handler = "StoreToFile"

\* C20: the flags a layer is processed with are those of its strategy:
\* stop_on_failure = True and is_independent_of_children = False without
\* explicit flags, the opposite for the street strategy; in the
\* configuration-based design every processor has the default flags, so no
\* child is eligible for concurrent dispatch and no failure is continued
\* past: once something failed, the run is in a handler or over, and it
\* never returns.
C20_Flags ==
    /\ \A l \in LayerIds :
          strategy_obj[l].cls \in {"ConcreteStrategy", "AvenueAddressStrategy",
                                   "DefaultAddressStrategy"}
              => (strategy_obj[l].stop_on_failure
                    /\ ~strategy_obj[l].is_independent_of_children)
    /\ \A l \in LayerIds :
          strategy_obj[l].cls = "StreetAddressStrategy"
              => (~strategy_obj[l].stop_on_failure
                    /\ strategy_obj[l].is_independent_of_children)
    /\ design = "config" =>
          /\ \A l \in LayerIds :
                strategy_obj[l] # NoProcessor =>
                    strategy_obj[l].cls = "ConcreteStrategy"
          /\ ~NoFailure =>
                \/ status \in {"exited", "uncaught InvalidInputException",
                                "uncaught AttributeError"}
                \/ (status = "running" /\ Top.pc = "except")

\* In the configuration-based design a child failed in its visit and the
\* handler, reading the default flag, ended the run.
C20_Witness ==
    /\ design = "config"
    /\ status = "exited"
    /\ \E c \in 2..doc.n : faults[c] = "process" /\ notify_calls = <<c>>

\* ----------------------------------------- claims about ConcreteStrategy
Succeeded(op) == \E i \in 1..Len(calls) : calls[i].op = op /\ calls[i].ok

FirstCall(op) == CHOOSE i \in 1..Len(calls) : calls[i].op = op

Called(op) == \E i \in 1..Len(calls) : calls[i].op = op

\* op is never called unless an earlier call of before succeeded.
OnlyAfter(op, before) ==
    Called(op) =>
        \E j \in 1..(FirstCall(op) - 1) :
            calls[j].op = before /\ calls[j].ok

\* C13 (as claimed): a failure of the notification never changes the
\* outcome of the layer: processing does not end in an exception because
\* the notifier raised.
C13_Claim ==
    (Called("notifier_obj.notify") /\ ~Succeeded("notifier_obj.notify"))
        => strategy_pc # "raised"

=============================================================================
